---- MODULE Spec2Model ----
(***************************************************************************)
(* smufl2svg.py: one run of the converter.  The module-level metadata      *)
(* loading (glyphnames.json, classes.json) fixes the lookup tables; main   *)
(* then walks the children of the <font> element once, writes one SVG file *)
(* per surviving glyph and finally index.html.                             *)
(*                                                                         *)
(* Python strings are TLA+ strings; a unicode attribute is the sequence of *)
(* its code points; an optional value (None or a value) is a sequence of   *)
(* length 0 or 1.                                                          *)
(***************************************************************************)
EXTENDS Integers, Sequences, FiniteSets, TLC

\* ------------------------------------------------------------------ bounds

\* number of children of the <font> element one run walks through
MaxChildren == 3
\* number of keys of classes.json
MaxClassKeys == 2

\* ------------------------------------------------- Python values and strings

None == <<>>
Some(v) == <<v>>
Val(o) == o[1]

Range(s) == {s[n] : n \in 1..Len(s)}

CharAt(s, n) == SubSeq(s, n, n)

\* Python: sub in s
Contains(sub, s) ==
    \E n \in 1..(Len(s) - Len(sub) + 1) : SubSeq(s, n, n + Len(sub) - 1) = sub

UpperChars == "ABCDEFGHIJKLMNOPQRSTUVWXYZ"
LowerChars == "abcdefghijklmnopqrstuvwxyz"
Digits == "0123456789"
HexDigits == "0123456789ABCDEF"

\* position of the one-character string c in alphabet, 0 when absent
IndexIn(c, alphabet) ==
    IF \E n \in 1..Len(alphabet) : CharAt(alphabet, n) = c
    THEN CHOOSE n \in 1..Len(alphabet) : CharAt(alphabet, n) = c
    ELSE 0

LowerChar(c) ==
    LET n == IndexIn(c, UpperChars) IN IF n = 0 THEN c ELSE CharAt(LowerChars, n)

\* Python: s.lower()
RECURSIVE Lower(_)
Lower(s) ==
    IF s = "" THEN "" ELSE LowerChar(CharAt(s, 1)) \o Lower(SubSeq(s, 2, Len(s)))

\* Python: s.replace(a, b) for one-character a
RECURSIVE Replace(_, _, _)
Replace(s, a, b) ==
    IF s = "" THEN ""
    ELSE (IF CharAt(s, 1) = a THEN b ELSE CharAt(s, 1))
         \o Replace(SubSeq(s, 2, Len(s)), a, b)

\* Python: s.split() on runs of blanks
RECURSIVE SplitFrom(_, _, _)
SplitFrom(s, cur, acc) ==
    IF s = "" THEN (IF cur = "" THEN acc ELSE Append(acc, cur))
    ELSE IF CharAt(s, 1) = " "
         THEN SplitFrom(SubSeq(s, 2, Len(s)), "",
                        IF cur = "" THEN acc ELSE Append(acc, cur))
         ELSE SplitFrom(SubSeq(s, 2, Len(s)), cur \o CharAt(s, 1), acc)

Split(s) == SplitFrom(s, "", <<>>)

\* value of a run of digits in the given base, None when a character is no digit
RECURSIVE DigitsValue(_, _, _)
DigitsValue(s, alphabet, acc) ==
    IF s = "" THEN Some(acc)
    ELSE LET n == IndexIn(CharAt(s, 1), alphabet) IN
         IF n = 0 THEN None
         ELSE DigitsValue(SubSeq(s, 2, Len(s)), alphabet, acc * Len(alphabet) + (n - 1))

\* Python: int(tok); None stands for ValueError
ParseInt(tok) ==
    LET signed == tok # "" /\ CharAt(tok, 1) \in {"-", "+"}
        body == IF signed THEN SubSeq(tok, 2, Len(tok)) ELSE tok
        mag == IF body = "" THEN None ELSE DigitsValue(body, Digits, 0)
    IN  IF mag = None THEN None
        ELSE IF signed /\ CharAt(tok, 1) = "-" THEN Some(0 - Val(mag)) ELSE mag

\* Python: int(s, 16) of upper-case hexadecimal digits
ParseHex(s) == IF s = "" THEN None ELSE DigitsValue(s, HexDigits, 0)

RECURSIVE FormatNat(_)
FormatNat(n) ==
    IF n < 10 THEN CharAt(Digits, n + 1)
    ELSE FormatNat(n \div 10) \o CharAt(Digits, (n % 10) + 1)

\* Python: "{}".format(n) of an int
FormatInt(n) == IF n < 0 THEN "-" \o FormatNat(0 - n) ELSE FormatNat(n)

\* Python: "{}".format(v) of an int or None
FormatOptInt(o) == IF o = None THEN "None" ELSE FormatInt(Val(o))

\* Python: "{}".format(v) of a str or None
FormatOptStr(o) == IF o = None THEN "None" ELSE Val(o)

\* Python: os.path.join(a, b)
PathJoin(a, b) ==
    IF b # "" /\ CharAt(b, 1) = "/" THEN b
    ELSE IF a = "" \/ CharAt(a, Len(a)) = "/" THEN a \o b
    ELSE a \o "/" \o b

\* Python: d[k] = v
Put(f, k, v) == [x \in DOMAIN f \cup {k} |-> IF x = k THEN v ELSE f[x]]

EmptyDict == [x \in {} |-> None]

\* ------------------------------------------------------- metadata (inputs)

\* metadata/glyphnames.json: canonical name -> {codepoint, description}
GlyphNameData == <<
    <<"gClef",                   [codepoint |-> "U+E050", description |-> "G clef"]>>,
    <<"systemDivider",           [codepoint |-> "U+E007", description |-> "System divider"]>>,
    <<"noteShapeRoundWhite",     [codepoint |-> "U+E1B0", description |-> "Round white"]>>,
    <<"articAccentAbove",        [codepoint |-> "U+E4A0", description |-> "Accent above"]>>,
    <<"figbassCombiningRaising", [codepoint |-> "U+EA6D", description |-> "Combining raise"]>>,
    <<"organOctave",             [codepoint |-> "U+EE10", description |-> "organGerman: 8va/8vb"]>> >>

\* metadata/classes.json: class name -> canonical names, in document order.
\* The keys of a JSON object are distinct; a name may be listed under two keys.
ClassEntries == {
    <<"clefsG", <<"gClef">>>>,
    <<"noteheads", <<"noteShapeRoundWhite">>>>,
    <<"articulations", <<"articAccentAbove", "gClef">>>> }

ClassesDataChoices ==
    {data \in UNION {[1..n -> ClassEntries] : n \in 0..MaxClassKeys} :
        \A a, b \in 1..Len(data) : a # b => data[a][1] # data[b][1]}

\* ------------------------------------------------ module-level code, 65-112

RECURSIVE LoadGlyphNames(_, _)
LoadGlyphNames(data, acc) ==
    IF data = <<>> THEN acc
    ELSE LET k == Head(data)[1]
             v == Head(data)[2]
             codepoint == Val(ParseHex(SubSeq(v.codepoint, 3, Len(v.codepoint))))
         IN  LoadGlyphNames(Tail(data),
                 [names |-> Put(acc.names, codepoint, k),
                  descriptions |-> Put(acc.descriptions, codepoint, v.description)])

GlyphTables == LoadGlyphNames(GlyphNameData, [names |-> EmptyDict, descriptions |-> EmptyDict])

GLYPH_NAMES == GlyphTables.names
GLYPH_DESCRIPTIONS == GlyphTables.descriptions

InitialOrderedClasses == <<
    "tf_metronomeMarks", "rests", "octaves", "forTextBasedApplications",
    "combiningStaffPositions", "tf_ornaments", "dynamics", "Uncategorized",
    "pauses", "pausesAbove", "pausesBelow", "tf_hairpins", "tf_pictograms",
    "clefsF", "clefsG", "clefsC", "clefs", "tf_zeroWidth" >>

\* faulty variant of lines 106-107: a class of classes.json is never appended
AppendClassNever(ordered, k) == ordered

\* lines 106-107
AppendClass(ordered, k) == IF k \notin Range(ordered) THEN Append(ordered, k) ELSE ordered

\* lines 108-109
RECURSIVE AssignClass(_, _, _)
AssignClass(classes, names, k) ==
    IF names = <<>> THEN classes
    ELSE AssignClass(Put(classes, Head(names), k), Tail(names), k)

\* lines 103-109
RECURSIVE LoadClasses(_, _)
LoadClasses(data, acc) ==
    IF data = <<>> THEN acc
    ELSE LET k == Head(data)[1]
             names == Head(data)[2]
         IN  LoadClasses(Tail(data),
                 [ordered |-> AppendClass(acc.ordered, k),
                  classes |-> AssignClass(acc.classes, names, k)])

STOPWORDS == <<"number below", "number above", "combining", "notehead",
               "512th", "1024th", "systemDivider", "organGerman">>

\* ------------------------------------------------------ the input document

FontFaceTag == "{http://www.w3.org/2000/svg}font-face"
GlyphTag == "{http://www.w3.org/2000/svg}glyph"
MissingGlyphTag == "{http://www.w3.org/2000/svg}missing-glyph"

Element(tag, attrib) == [tag |-> tag, attrib |-> attrib]

Glyph(unicode, name, d) ==
    Element(GlyphTag, ("unicode" :> unicode) @@ ("glyph-name" :> name) @@ ("d" :> d))

\* the children of the <font> element a document is made of
Children == {
    Element(FontFaceTag, "bbox" :> "0 0 1000 1000"),
    Element(FontFaceTag, "bbox" :> "-37  -1200 +4400 0990"),
    Element(FontFaceTag, "bbox" :> "0 0 1000.5 1000"),
    Element(FontFaceTag, "units-per-em" :> "1000"),
    Element(MissingGlyphTag, "d" :> "M9"),
    Element(GlyphTag, ("glyph-name" :> "uniE050.salt01") @@ ("d" :> "M3")),
    Element(GlyphTag, ("unicode" :> <<57424>>) @@ ("glyph-name" :> "uniE050")),
    Glyph(<<>>, "empty", "M4"),
    Glyph(<<65>>, "A", "M5"),
    Glyph(<<57424>>, "uniE050", "M1"),
    Glyph(<<57424, 58528>>, "uniE050_uniE4A0", "M2"),
    Glyph(<<58528>>, "uniE4A0", "M6"),
    Glyph(<<57351>>, "uniE007", "M7"),
    Glyph(<<57776>>, "uniE1B0", "M8"),
    Glyph(<<60013>>, "uniEA6D", "M10"),
    Glyph(<<60944>>, "uniEE10", "M11") }

\* what ElementTree finds under the document root (lines 123-128)
Structures == {"defs/font", "defs", "none"}

OutputDirs == {"out", "out/"}

\* -------------------------------------------------------------------- state

VARIABLES
    ORDERED_CLASSES,    \* module global, after lines 79-107
    CLASSES,            \* module global, after lines 78-109
    input,              \* the structure of the parsed input document
    output_dir,         \* args.output_dir
    pc,                 \* position in main
    i,                  \* number of children the loop of line 135 has taken
    child,              \* loop variable of line 135
    width, height, viewbox,
    items,              \* OrderedDict: class -> list of items
    cls, item,          \* locals of the loop body
    files,              \* the SVG files on disk: path -> content
    images_html_items,
    index_html          \* content of index.html, None while not written

vars == <<ORDERED_CLASSES, CLASSES, input, output_dir, pc, i, child, width, height,
          viewbox, items, cls, item, files, images_html_items, index_html>>

Init ==
    /\ \E data \in ClassesDataChoices :
         LET loaded == LoadClasses(data, [ordered |-> InitialOrderedClasses,
                                          classes |-> EmptyDict])
         IN  /\ ORDERED_CLASSES = loaded.ordered
             /\ CLASSES = loaded.classes
    /\ input \in Structures
    /\ output_dir \in OutputDirs
    /\ pc = "start"
    /\ i = 0
    /\ child = None
    /\ width = None /\ height = None /\ viewbox = None
    /\ items = EmptyDict
    /\ cls = None /\ item = None
    /\ files = EmptyDict
    /\ images_html_items = <<>>
    /\ index_html = None

\* ------------------------------------------------------------ main, 115-219

MinYOffset == 600
MaxXOffset == 400
MaxYOffset == 800

\* faulty variant of lines 141-147: width and height taken before the crop
CropViewportPreCrop(minx, miny, maxx, maxy) ==
    [width |-> maxx - minx,
     height |-> maxy - miny,
     viewbox |-> FormatInt(minx) \o " " \o FormatInt(miny + MinYOffset) \o " "
                 \o FormatInt(maxx - MaxXOffset) \o " " \o FormatInt(maxy + MaxYOffset)]

\* lines 141-147: the crop, then width and height, then the viewBox string
CropViewport(minx, miny, maxx, maxy) ==
    LET miny2 == miny + MinYOffset
        maxx2 == maxx - MaxXOffset
        maxy2 == maxy + MaxYOffset
    IN  [width |-> maxx2 - minx,
         height |-> maxy2 - miny2,
         viewbox |-> FormatInt(minx) \o " " \o FormatInt(miny2) \o " "
                     \o FormatInt(maxx2) \o " " \o FormatInt(maxy2)]

\* line 138: [int(x) for x in viewbox.split()] unpacked into four names;
\* None stands for the ValueError of int() or of the unpacking
ParseBBox(bbox) ==
    LET toks == Split(bbox)
        ints == [k \in 1..Len(toks) |-> ParseInt(toks[k])]
    IN  IF Len(toks) = 4 /\ \A k \in 1..4 : ints[k] # None
        THEN Some([k \in 1..4 |-> Val(ints[k])])
        ELSE None

HasAttr(c, k) == k \in DOMAIN c.attrib

\* faulty variant of line 150: "and" in place of "or"
LacksUnicodeAndPath(c) == ~HasAttr(c, "unicode") /\ ~HasAttr(c, "d")

\* line 150
LacksUnicodeOrPath(c) == ~HasAttr(c, "unicode") \/ ~HasAttr(c, "d")

\* line 153: ord(list(character_u)[0])
CodePoint(c) == c.attrib["unicode"][1]

\* line 160
Sanitize(description) == Replace(Replace(description, "/", "-"), ":", "-")

\* lines 166-171
HasStopWord(label, glyph_name) ==
    LET lowered == Lower(label) IN
    \E k \in 1..Len(STOPWORDS) :
        Contains(STOPWORDS[k], lowered) \/ Contains(STOPWORDS[k], glyph_name)

\* faulty variant of line 175: plain concatenation in place of os.path.join
OutputPathConcat(dir, glyph_name) == dir \o glyph_name \o ".svg"

\* line 175
OutputPath(dir, glyph_name) == PathJoin(dir, glyph_name) \o ".svg"

\* lines 177-180
ClassOf(glyph_name) ==
    IF glyph_name \in DOMAIN CLASSES THEN CLASSES[glyph_name] ELSE "Uncategorized"

\* line 182
ClassDropped(c) == c = "noteheads" \/ c \notin Range(ORDERED_CLASSES)

\* line 190: IMG_TEMPLATE.format(src=path, label=label, glyph_name=glyph_name)
ImgHtml(path, label, glyph_name) ==
    [tag |-> "item", src |-> path, title |-> glyph_name, label |-> label]

\* lines 195-197: SVG_TEMPLATE.format(width=, height=, viewbox=, path=)
SvgDocument(w, h, vb, d) ==
    [viewBox |-> FormatOptStr(vb), width |-> FormatOptInt(w),
     height |-> FormatOptInt(h), path |-> d]

\* faulty variant of lines 123-128: a missing defs or font element is taken for an
\* empty <font>
FindRootLenient ==
    /\ pc = "start"
    /\ pc' = "loop"
    /\ UNCHANGED <<ORDERED_CLASSES, CLASSES, input, output_dir, i, child, width, height,
                   viewbox, items, cls, item, files, images_html_items, index_html>>

\* lines 116-133: locate the <font> element.  Without <defs> line 127 calls
\* .find on None; without <font> root is None and line 135 cannot iterate it.
FindRoot ==
    /\ pc = "start"
    /\ pc' = IF input = "defs/font" THEN "loop" ELSE "raised"
    /\ UNCHANGED <<ORDERED_CLASSES, CLASSES, input, output_dir, i, child, width, height,
                   viewbox, items, cls, item, files, images_html_items, index_html>>

Raise == pc' = "raised"
Continue == pc' = "loop"

\* lines 136-149: a font-face child
FontFace(c) ==
    /\ UNCHANGED <<items, cls, item>>
    /\ IF ~HasAttr(c, "bbox")
       THEN Raise /\ UNCHANGED <<width, height, viewbox>>
       ELSE LET box == ParseBBox(c.attrib["bbox"]) IN
            IF box = None
            THEN /\ Raise
                 /\ viewbox' = Some(c.attrib["bbox"])
                 /\ UNCHANGED <<width, height>>
            ELSE LET v == CropViewport(Val(box)[1], Val(box)[2], Val(box)[3], Val(box)[4])
                 IN  /\ width' = Some(v.width)
                     /\ height' = Some(v.height)
                     /\ viewbox' = Some(v.viewbox)
                     /\ Continue

\* lines 182-192: the class test, the group and the item of a glyph that
\* passed the stopword test; line 191 raises KeyError without a d attribute
Keep(c, glyph_name, label) ==
    LET path == OutputPath(output_dir, glyph_name)
        k == ClassOf(glyph_name)
    IN
    /\ cls' = Some(k)
    /\ IF ClassDropped(k)
       THEN Continue /\ UNCHANGED <<items, item>>
       ELSE /\ items' = IF k \in DOMAIN items THEN items ELSE Put(items, k, <<>>)
            /\ IF HasAttr(c, "d")
               THEN /\ item' = Some([path |-> path,
                                     html |-> ImgHtml(path, label, glyph_name),
                                     d |-> c.attrib["d"]])
                    /\ pc' = "write"
               ELSE Raise /\ UNCHANGED item

\* lines 158-173: the label and the stopword test of a resolved glyph
Resolved(c, code_point) ==
    LET glyph_name == GLYPH_NAMES[code_point] IN
    IF code_point \notin DOMAIN GLYPH_DESCRIPTIONS /\ ~HasAttr(c, "glyph-name")
    THEN Raise /\ UNCHANGED <<items, cls, item>>
    ELSE LET label == IF code_point \in DOMAIN GLYPH_DESCRIPTIONS
                      THEN Sanitize(GLYPH_DESCRIPTIONS[code_point])
                      ELSE c.attrib["glyph-name"]
         IN  IF HasStopWord(label, glyph_name)
             THEN Continue /\ UNCHANGED <<items, cls, item>>
             ELSE Keep(c, glyph_name, label)

\* lines 150-157: a glyph child; lines 152-153 raise KeyError without a
\* unicode attribute and IndexError on an empty one
GlyphEntry(c) ==
    /\ UNCHANGED <<width, height, viewbox>>
    /\ IF LacksUnicodeOrPath(c)
       THEN Continue /\ UNCHANGED <<items, cls, item>>
       ELSE IF ~HasAttr(c, "unicode") \/ c.attrib["unicode"] = <<>>
       THEN Raise /\ UNCHANGED <<items, cls, item>>
       ELSE IF CodePoint(c) \notin DOMAIN GLYPH_NAMES
       THEN Continue /\ UNCHANGED <<items, cls, item>>
       ELSE Resolved(c, CodePoint(c))

\* lines 135-192: the loop takes the next child and runs the body up to the
\* point where the item is built
Child(c) ==
    /\ pc = "loop"
    /\ i < MaxChildren
    /\ i' = i + 1
    /\ child' = Some(c)
    /\ IF c.tag = FontFaceTag THEN FontFace(c)
       ELSE IF c.tag = GlyphTag THEN GlyphEntry(c)
       ELSE Continue /\ UNCHANGED <<width, height, viewbox, items, cls, item>>
    /\ UNCHANGED <<ORDERED_CLASSES, CLASSES, input, output_dir, files,
                   images_html_items, index_html>>

\* faulty variant of lines 193-198: an existing file is left as it is
WriteSvgKeepFirst ==
    /\ pc = "write"
    /\ files' = IF Val(item).path \in DOMAIN files THEN files
                ELSE Put(files, Val(item).path,
                         SvgDocument(width, height, viewbox, Val(item).d))
    /\ pc' = "append"
    /\ UNCHANGED <<ORDERED_CLASSES, CLASSES, input, output_dir, i, child, width, height,
                   viewbox, items, cls, item, images_html_items, index_html>>

\* lines 193-198
WriteSvg ==
    /\ pc = "write"
    /\ files' = Put(files, Val(item).path,
                    SvgDocument(width, height, viewbox, Val(item).d))
    /\ pc' = "append"
    /\ UNCHANGED <<ORDERED_CLASSES, CLASSES, input, output_dir, i, child, width, height,
                   viewbox, items, cls, item, images_html_items, index_html>>

\* line 193: open() raises OSError
WriteSvgError ==
    /\ pc = "write"
    /\ pc' = "raised"
    /\ UNCHANGED <<ORDERED_CLASSES, CLASSES, input, output_dir, i, child, width, height,
                   viewbox, items, cls, item, files, images_html_items, index_html>>

\* faulty variant of lines 200-202: the group is replaced by the one item
AppendItemReplace ==
    /\ pc = "append"
    /\ items' = [items EXCEPT ![Val(cls)] = <<Val(item)>>]
    /\ pc' = "loop"
    /\ UNCHANGED <<ORDERED_CLASSES, CLASSES, input, output_dir, i, child, width, height,
                   viewbox, cls, item, files, images_html_items, index_html>>

\* lines 200-202
AppendItem ==
    /\ pc = "append"
    /\ items' = [items EXCEPT ![Val(cls)] = Append(@, Val(item))]
    /\ pc' = "loop"
    /\ UNCHANGED <<ORDERED_CLASSES, CLASSES, input, output_dir, i, child, width, height,
                   viewbox, cls, item, files, images_html_items, index_html>>

\* faulty variant of lines 205-216: a class without a group is rendered as an empty
\* section
RECURSIVE RenderClassesAll(_, _, _)
RenderClassesAll(ordered, groups, acc) ==
    IF ordered = <<>> THEN acc
    ELSE LET cls_k == Head(ordered)
             group == IF cls_k \in DOMAIN groups THEN groups[cls_k] ELSE <<>>
         IN  RenderClassesAll(Tail(ordered), groups,
                 acc \o <<[tag |-> "h1", text |-> cls_k], [tag |-> "div"]>>
                     \o [k \in 1..Len(group) |-> group[k].html]
                     \o <<[tag |-> "/div"]>>)

\* lines 205-216
RECURSIVE RenderClasses(_, _, _)
RenderClasses(ordered, groups, acc) ==
    IF ordered = <<>> THEN acc
    ELSE LET cls_k == Head(ordered) IN
         IF cls_k \notin DOMAIN groups
         THEN RenderClasses(Tail(ordered), groups, acc)
         ELSE RenderClasses(Tail(ordered), groups,
                  acc \o <<[tag |-> "h1", text |-> cls_k], [tag |-> "div"]>>
                      \o [k \in 1..Len(groups[cls_k]) |-> groups[cls_k][k].html]
                      \o <<[tag |-> "/div"]>>)

\* lines 204-216: the loop is exhausted, the index is assembled
BuildIndex ==
    /\ pc = "loop"
    /\ images_html_items' = RenderClasses(ORDERED_CLASSES, items, <<>>)
    /\ pc' = "index"
    /\ UNCHANGED <<ORDERED_CLASSES, CLASSES, input, output_dir, i, child, width, height,
                   viewbox, items, cls, item, files, index_html>>

\* lines 218-219
WriteIndex ==
    /\ pc = "index"
    /\ index_html' = Some(images_html_items)
    /\ pc' = "done"
    /\ UNCHANGED <<ORDERED_CLASSES, CLASSES, input, output_dir, i, child, width, height,
                   viewbox, items, cls, item, files, images_html_items>>

Next ==
    \/ FindRoot
    \/ \E c \in Children : Child(c)
    \/ WriteSvg
    \/ WriteSvgError
    \/ AppendItem
    \/ BuildIndex
    \/ WriteIndex

Spec == Init /\ [][Next]_vars

\* ------------------------------------------------------------------ claims

IsGlyph(c) == c.tag = GlyphTag
IsFontFace(c) == c.tag = FontFaceTag
Taken == child # None
Step == i' = i + 1

\* the items the run has appended to a class group
GroupedItems ==
    {items[k][a] : <<k, a>> \in
        UNION {{<<k2, a2>> : a2 \in 1..Len(items[k2])} : k2 \in DOMAIN items}}

\* every item the run has built: the grouped ones and the pending one
AllItems == GroupedItems \cup (IF item = None THEN {} ELSE {Val(item)})

\* C1: in one run every SVG file written carries the same viewBox, width and
\* height, and none is written with an unset (None) viewport, whatever the
\* order and number of font-face and glyph children.
C1_SharedViewport ==
    \A p, q \in DOMAIN files :
        /\ files[p].viewBox = files[q].viewBox
        /\ files[p].width = files[q].width
        /\ files[p].height = files[q].height
        /\ files[p].viewBox # "None" /\ files[p].width # "None" /\ files[p].height # "None"

\* a stopword occurs in the label compared without regard to case, or in the
\* canonical name compared with regard to case
StopwordOccurs(label, name) ==
    \E k \in 1..Len(STOPWORDS) :
        Contains(Lower(STOPWORDS[k]), Lower(label)) \/ Contains(STOPWORDS[k], name)

\* C2: a glyph whose resolved label contains a stopword case-insensitively, or
\* whose canonical name contains one case-sensitively, is dropped: no file is
\* written for it and no index entry is added.
C2_StopwordDrops ==
    \A it \in AllItems :
        StopwordOccurs(it.html.label, it.html.title) =>
            it.path \notin DOMAIN files /\ it \notin GroupedItems

\* a child on which the loop body raises before any file is written
Malformed(c) ==
    \/ IsFontFace(c) /\ (~HasAttr(c, "bbox") \/ ParseBBox(c.attrib["bbox"]) = None)
    \/ IsGlyph(c) /\ HasAttr(c, "unicode") /\ HasAttr(c, "d") /\ c.attrib["unicode"] = <<>>

\* C3 as stated: without the defs/font structure, or with no qualifying glyph,
\* the run is not an error.
C3_NoStructureNoError ==
    (input # "defs/font" \/ DOMAIN items = {}) => pc # "raised"

\* C3 amended: without the defs or font element main raises before the loop
\* and writes nothing; with them, a run in which no glyph qualified raises
\* only on a malformed child, and when it completes index.html has no class
\* section (a missing font-face is no error).
C3_EmptyIndexOrRaise ==
    /\ input # "defs/font" =>
          pc \in {"start", "raised"} /\ index_html = None /\ files = EmptyDict /\ i = 0
    /\ (pc = "raised" /\ input = "defs/font" /\ DOMAIN items = {}) =>
          Taken /\ Malformed(Val(child))
    /\ (pc = "done" /\ DOMAIN items = {}) => index_html = Some(<<>>)

C3_Witness ==
    /\ pc = "done" /\ i >= 2 /\ DOMAIN items = {} /\ viewbox = None
    /\ index_html = Some(<<>>)

\* C4: the step that takes a glyph entry lacking a unicode attribute or path
\* data writes no file and adds no index entry, and the loop goes on,
\* whatever was processed before it.
C4_LackingEntryLeavesNoTrace ==
    [][(Step /\ IsGlyph(Val(child'))
             /\ ("unicode" \notin DOMAIN Val(child').attrib
                 \/ "d" \notin DOMAIN Val(child').attrib))
        => (files' = files /\ items' = items /\ pc' = "loop")]_vars

C4_Witness ==
    /\ Taken /\ IsGlyph(Val(child)) /\ "unicode" \notin DOMAIN Val(child).attrib
    /\ pc = "loop" /\ i >= 2 /\ files # EmptyDict

Positions(html, tag) == {q \in 1..Len(html) : html[q].tag = tag}

\* the classes of the display order that have an item, in that order
NonEmptyClasses ==
    SelectSeq(ORDERED_CLASSES, LAMBDA k : k \in DOMAIN items /\ items[k] # <<>>)

RECURSIVE TotalLen(_)
TotalLen(ks) == IF ks = <<>> THEN 0 ELSE Len(items[Head(ks)]) + TotalLen(Tail(ks))

HeadingTexts(html) ==
    LET hs == SelectSeq(html, LAMBDA e : e.tag = "h1") IN [q \in 1..Len(hs) |-> hs[q].text]

\* the page is a run of sections, one per non-empty class in display order,
\* each a heading, the opening div, the class's items in order, the closing div
C5_Page ==
    pc \in {"index", "done"} =>
        LET html == images_html_items IN
        /\ HeadingTexts(html) = NonEmptyClasses
        /\ \A q \in Positions(html, "h1") :
              LET group == items[html[q].text] IN
              /\ Len(group) >= 1
              /\ Len(html) >= q + 2 + Len(group)
              /\ html[q + 1].tag = "div"
              /\ \A a \in 1..Len(group) : html[q + 1 + a] = group[a].html
              /\ html[q + 2 + Len(group)].tag = "/div"
        /\ Cardinality(Positions(html, "div")) = Cardinality(Positions(html, "h1"))
        /\ Cardinality(Positions(html, "/div")) = Cardinality(Positions(html, "h1"))
        /\ Len(html) = 3 * Len(NonEmptyClasses) + TotalLen(NonEmptyClasses)
        /\ (pc = "done" => index_html = Some(html))

\* a group only grows, by the item of the child being processed, at its end
C5_AppendOnly ==
    \A k \in DOMAIN items :
        /\ k \in DOMAIN items'
        /\ Len(items'[k]) \in {Len(items[k]), Len(items[k]) + 1}
        /\ SubSeq(items'[k], 1, Len(items[k])) = items[k]
        /\ Len(items'[k]) = Len(items[k]) + 1 =>
              items'[k][Len(items'[k])].d = Val(child).attrib["d"]

\* C5: the sections of the index page are exactly the classes of
\* ORDERED_CLASSES that have at least one item, in display order, none with
\* zero items, and within a section the items stand in processing order.
C5_IndexSections == []C5_Page /\ [][C5_AppendOnly]_vars

C5_Witness ==
    /\ pc = "done"
    /\ Len(HeadingTexts(Val(index_html))) = 2
    /\ \E k \in DOMAIN items : Len(items[k]) = 2 /\ items[k][1] # items[k][2]

\* <outputDir>/<name>.svg, without a doubled separator when outputDir ends in one
ExpectedPath(dir, name) ==
    (IF dir # "" /\ SubSeq(dir, Len(dir), Len(dir)) = "/" THEN dir ELSE dir \o "/")
    \o name \o ".svg"

\* a glyph entry with path data and a first code point
HasCodePoint(c) ==
    IsGlyph(c) /\ HasAttr(c, "unicode") /\ HasAttr(c, "d") /\ c.attrib["unicode"] # <<>>

ResolvesName(c) == HasCodePoint(c) /\ c.attrib["unicode"][1] \in DOMAIN GLYPH_NAMES

\* C6 as stated: a surviving glyph is written to <outputDir>/<canonical
\* name>.svg when its code point resolves, and an entry whose code point does
\* not resolve survives under the fallback name embedded in the font entry.
C6_CanonicalOrFallbackPath ==
    [][/\ (Step /\ ResolvesName(Val(child')) /\ pc' = "write") =>
             Val(item').path
               = ExpectedPath(output_dir, GLYPH_NAMES[Val(child').attrib["unicode"][1]])
       /\ (Step /\ HasCodePoint(Val(child')) /\ ~ResolvesName(Val(child'))
                /\ HasAttr(Val(child'), "glyph-name")
                /\ ~StopwordOccurs(Val(child').attrib["glyph-name"],
                                   Val(child').attrib["glyph-name"])) =>
             /\ pc' = "write"
             /\ Val(item').path
                  = ExpectedPath(output_dir, Val(child').attrib["glyph-name"])]_vars

C6_PathsAreCanonical ==
    /\ \A it \in AllItems :
          \E cp \in DOMAIN GLYPH_NAMES :
              /\ it.html.title = GLYPH_NAMES[cp]
              /\ it.path = ExpectedPath(output_dir, GLYPH_NAMES[cp])
    /\ \A p \in DOMAIN files : \E it \in AllItems : it.path = p
    /\ pc \in {"write", "append"} =>
          /\ ResolvesName(Val(child))
          /\ Val(item).path
               = ExpectedPath(output_dir, GLYPH_NAMES[Val(child).attrib["unicode"][1]])

C6_UnresolvedDropped ==
    (Step /\ HasCodePoint(Val(child')) /\ ~ResolvesName(Val(child'))) =>
        (files' = files /\ items' = items /\ pc' = "loop")

\* C6 amended: a surviving glyph's code point always resolves and its output
\* path is os.path.join(outputDir, canonical name) + ".svg"; an entry whose
\* code point does not resolve is dropped, nothing is written under its
\* fallback name and no index entry is added.
C6_CanonicalPathOnly == []C6_PathsAreCanonical /\ [][C6_UnresolvedDropped]_vars

C6_Witness ==
    /\ Taken /\ HasCodePoint(Val(child)) /\ ~ResolvesName(Val(child))
    /\ pc = "loop" /\ output_dir = "out/"
    /\ "out/gClef.svg" \in DOMAIN files
    /\ ExpectedPath(output_dir, Val(child).attrib["glyph-name"]) \notin DOMAIN files

\* the bounding boxes of the documents, as integers
BBoxInts ==
    ("0 0 1000 1000" :> <<0, 0, 1000, 1000>>)
    @@ ("-37  -1200 +4400 0990" :> <<-37, -1200, 4400, 990>>)

ViewBoxText ==
    ("0 0 1000 1000" :> "0 600 600 1800")
    @@ ("-37  -1200 +4400 0990" :> "-37 -600 4000 1790")

\* C7: after a font-face with bbox (minX, minY, maxX, maxY) the viewport is
\* (minX, minY+600, maxX-400, maxY+800) with width and height taken after the
\* crop, and a file carries the viewport of the moment it was written; for
\* "0 0 1000 1000" that is "0 600 600 1800", 600 and 1200.
C7_CroppedViewport ==
    /\ (Taken /\ IsFontFace(Val(child)) /\ HasAttr(Val(child), "bbox")
              /\ Val(child).attrib["bbox"] \in DOMAIN BBoxInts) =>
          LET b == BBoxInts[Val(child).attrib["bbox"]] IN
          /\ viewbox = Some(ViewBoxText[Val(child).attrib["bbox"]])
          /\ width = Some((b[3] - 400) - b[1])
          /\ height = Some((b[4] + 800) - (b[2] + 600))
    /\ \A p \in DOMAIN files :
          /\ files[p].viewBox = "0 600 600 1800" =>
                files[p].width = "600" /\ files[p].height = "1200"
          /\ files[p].viewBox = "-37 -600 4000 1790" =>
                files[p].width = "4037" /\ files[p].height = "2390"
          /\ files[p].viewBox \in {"None", "0 600 600 1800", "-37 -600 4000 1790"}
    /\ pc = "append" =>
          /\ viewbox # None => files[Val(item).path].viewBox = Val(viewbox)
          /\ viewbox = None => files[Val(item).path].viewBox = "None"

C7_Witness ==
    /\ pc = "append" /\ viewbox = Some("0 600 600 1800")
    /\ files[Val(item).path] = [viewBox |-> "0 600 600 1800", width |-> "600",
                                 height |-> "1200", path |-> Val(item).d]

\* the position of the last item of group k written to path p
LastAt(k, p) ==
    CHOOSE b \in 1..Len(items[k]) :
        /\ items[k][b].path = p
        /\ \A b2 \in (b + 1)..Len(items[k]) : items[k][b2].path # p

IndexEntries(html, p) == {q \in Positions(html, "item") : html[q].src = p}

\* C8: between two children and at the end, the file at a path holds the
\* path data of the last item processed for that path, every item stays in
\* its group, and index.html has one entry per item, so two entries link to
\* the one file of two colliding glyphs.
C8_LastWriteWins ==
    /\ pc \in {"loop", "index", "done"} =>
          \A k \in DOMAIN items : \A a \in 1..Len(items[k]) :
              LET p == items[k][a].path IN
              /\ p \in DOMAIN files
              /\ files[p].path = items[k][LastAt(k, p)].d
              /\ \A k2 \in DOMAIN items \ {k} :
                    \A a2 \in 1..Len(items[k2]) : items[k2][a2].path # p
    /\ pc = "done" =>
          \A k \in DOMAIN items : \A a \in 1..Len(items[k]) :
              Cardinality(IndexEntries(Val(index_html), items[k][a].path))
                = Cardinality({b \in 1..Len(items[k]) :
                                  items[k][b].path = items[k][a].path})

C8_Witness ==
    /\ pc = "done"
    /\ \E k \in DOMAIN items : \E a, b \in 1..Len(items[k]) :
          /\ a < b
          /\ items[k][a].path = items[k][b].path
          /\ items[k][a].d # items[k][b].d
          /\ files[items[k][b].path].path = items[k][b].d
          /\ Cardinality(IndexEntries(Val(index_html), items[k][b].path)) = 2

C9_Corresponds ==
    /\ \A it \in GroupedItems : it.path \in DOMAIN files
    /\ index_html # None =>
          {Val(index_html)[q].src : q \in Positions(Val(index_html), "item")}
            = DOMAIN files

C9_IndexLast ==
    /\ index_html # None => files' = files
    /\ index_html' # index_html =>
          /\ files' = files
          /\ \A it \in GroupedItems : it.path \in DOMAIN files
          /\ \A p \in DOMAIN files : \E it \in GroupedItems : it.path = p

\* C9: every grouped index entry links to a file already written,
\* index.html is written after the last SVG file, and once it is written
\* the paths it links are exactly the paths written.
C9_FilesAndIndex == []C9_Corresponds /\ [][C9_IndexLast]_vars

C9_Witness ==
    /\ pc = "done" /\ Cardinality(DOMAIN files) >= 2
    /\ {Val(index_html)[q].src : q \in Positions(Val(index_html), "item")} = DOMAIN files

ClassValues == {CLASSES[n] : n \in DOMAIN CLASSES}

C10_AllClassesOrdered ==
    /\ ClassValues \subseteq Range(ORDERED_CLASSES)
    /\ "Uncategorized" \in Range(ORDERED_CLASSES)

\* a glyph that passed name resolution and the stopword test is dropped by
\* the class test exactly when its class is noteheads
C10_DroppedIffNoteheads ==
    (/\ Step /\ ResolvesName(Val(child'))
     /\ ~HasStopWord(Sanitize(GLYPH_DESCRIPTIONS[Val(child').attrib["unicode"][1]]),
                      GLYPH_NAMES[Val(child').attrib["unicode"][1]])) =>
        LET name == GLYPH_NAMES[Val(child').attrib["unicode"][1]]
            class == IF name \in DOMAIN CLASSES THEN CLASSES[name] ELSE "Uncategorized"
        IN  /\ cls' = Some(class)
            /\ class \in Range(ORDERED_CLASSES)
            /\ (pc' = "loop" /\ items' = items /\ files' = files) <=> class = "noteheads"
            /\ class # "noteheads" => pc' = "write"

\* C10: after metadata loading every class that is a value of CLASSES, and
\* Uncategorized, is in ORDERED_CLASSES, so a glyph that passed resolution and
\* the stopword test is dropped on class grounds iff its class is noteheads.
C10_OnlyNoteheadsDropped == []C10_AllClassesOrdered /\ [][C10_DroppedIffNoteheads]_vars

C10_Witness ==
    /\ Taken /\ ResolvesName(Val(child)) /\ pc = "loop"
    /\ cls = Some("noteheads")
    /\ GLYPH_NAMES[Val(child).attrib["unicode"][1]] = "noteShapeRoundWhite"
    /\ "articulations" \in ClassValues
    /\ "articulations" \notin Range(InitialOrderedClasses)
    /\ \E it \in GroupedItems : it.html.title = "articAccentAbove"

====
